---- MODULE Spec2Model ----
(***************************************************************************)
(* Model of src/stm32/software_glitch.py: the glitch campaign run_demo,    *)
(* one attempt run_whole_glitch, the ChipSHOUTER probe (cs), the glitch_on *)
(* trigger threads, the option-byte (RDP) helpers and the classification   *)
(* of the flash read-back.                                                 *)
(***************************************************************************)
EXTENDS Integers, Sequences, FiniteSets, TLC

VARIABLES
    pc,          \* position of the main thread in run_demo / run_whole_glitch
    i,           \* loop variable of run_demo
    args,        \* width, repeat, deadtime passed to run_whole_glitch
    cs,          \* the ChipSHOUTER: voltage, width, armed, repeat, deadtime, pulse
    arm_ret,     \* value returned by arm_chipshouter (run_whole_glitch drops it)
    threads,     \* live glitch_on threads: [att, pc]
    data_after,  \* local data_after of run_whole_glitch
    rdp,         \* set_rdp_level_* call just made: option bytes read, level, return
                 \* value, block sent, returncode
    trace,       \* external commands issued so far by the current attempt
    msg,         \* last outcome line printed by the current attempt
    ret          \* value returned by run_whole_glitch

vars == <<pc, i, args, cs, arm_ret, threads, data_after, rdp, trace, msg, ret>>

----------------------------------------------------------------------------
(* Bounds of the model *)

\* glitch_on threads alive at the same time
MaxLive == 1
\* bytes of a flash read kept after the first 16
MaxTail == 1

(* Program constants *)

\* range(10) in run_demo
Iterations == 10

\* read_flash / read_option_bytes returning None
None == << -1 >>

\* test_data = b"SIMON_SIMON_SIMO"
test_data == <<83, 73, 77, 79, 78, 95, 83, 73, 77, 79, 78, 95, 83, 73, 77, 79>>

\* data_expected of check_data_protected
data_expected == <<128, 0, 85, 1, 3, 0, 3, 1, 0, 0, 0, 0, 0, 0, 255, 255>>

----------------------------------------------------------------------------
(* Pure helpers *)

Min(a, b) == IF a < b THEN a ELSE b

Zeros(n) == [k \in 1..n |-> 0]

\* Python data[:16]
Slice16(data) == SubSeq(data, 1, Min(16, Len(data)))

\* check_data_0 looking at the first 16 bytes only
check_data_0_16(data) == \A k \in 1..Min(16, Len(data)) : data[k] = 0

\* check_data_0 with any() written for all()
check_data_0_any(data) == \E k \in 1..Len(data) : data[k] = 0

check_data_0(data) == \A k \in 1..Len(data) : data[k] = 0

\* check_data_write comparing one byte too few
check_data_write_15(data) ==
    SubSeq(data, 1, Min(15, Len(data))) = SubSeq(test_data, 1, 15)

check_data_write(data) == Slice16(data) = test_data

\* check_data_protected doing what its first comment says ("all 0x00")
check_data_protected_zero(data) == check_data_0(data)

check_data_protected(data) == Slice16(data) = data_expected

\* lines 384-396 of run_whole_glitch; a None snapshot raises TypeError in
\* check_data_0
Classification(data) ==
    IF data = None THEN "TypeError"
    ELSE IF ~check_data_0(data)
         THEN IF check_data_write(data) THEN "GLITCH WORKED!"
              ELSE "GLITCH PROGRESS!"
         ELSE "GLITCH FAILED!"

\* read_option_bytes: None when the command failed, else byte 0 (0 for an
\* empty file)
read_option_bytes(rd) ==
    IF rd = None THEN -1
    ELSE IF Len(rd) > 0 THEN rd[1] ELSE 0

\* the level branches with 0x33 and 0xCC taken for each other
rdp_level_swapped(rdp_byte) ==
    IF rdp_byte = 170 THEN "RDP Level 0 (No protection)"
    ELSE IF rdp_byte = 204 THEN "RDP Level 1 (Read protection enabled)"
    ELSE IF rdp_byte = 51 THEN "RDP Level 2 (Chip protection - IRREVERSIBLE!)"
    ELSE "Unknown RDP level"

\* read_option_bytes, lines 151-162: the branch taken for the byte read
rdp_level(rdp_byte) ==
    IF rdp_byte = 170 THEN "RDP Level 0 (No protection)"
    ELSE IF rdp_byte = 51 THEN "RDP Level 1 (Read protection enabled)"
    ELSE IF rdp_byte = 204 THEN "RDP Level 2 (Chip protection - IRREVERSIBLE!)"
    ELSE "Unknown RDP level"

NoRdp == [ret |-> "none", current_data |-> None, current_rdp |-> -1,
          level |-> "", new_data |-> None, rc |-> -1]

\* what a set_rdp_level_* call leaves: rd the content of option_bytes.bin
\* (None: the read failed), the byte and level read_option_bytes made of it,
\* the value returned, the block handed to the st-flash write (None: no
\* write) and that command's return code
RdpResult(rd, value, new_data, rc) ==
    [ret |-> value, current_data |-> rd,
     current_rdp |-> read_option_bytes(rd),
     level |-> IF rd = None THEN "" ELSE rdp_level(read_option_bytes(rd)),
     new_data |-> new_data, rc |-> rc]

\* set_rdp_level_* with the "already set" test left out
SetRdp_nocheck(b0, b1, fast, rd, rc) ==
    IF read_option_bytes(rd) = -1 \/ Len(rd) < 2
    THEN RdpResult(rd, "False", None, -1)
    ELSE RdpResult(rd, IF fast \/ rc = 0 THEN "True" ELSE "False",
                   [rd EXCEPT ![1] = b0, ![2] = b1], rc)

\* set_rdp_level_* with the test of the failed read moved behind the fast
\* return: in fast mode a failed read is reported as success
SetRdp_fastfirst(b0, b1, fast, rd, rc) ==
    LET current_rdp == read_option_bytes(rd)
    IN  IF current_rdp = -1
        THEN RdpResult(rd, IF fast THEN "True" ELSE "False", None, -1)
        ELSE IF current_rdp = b0
        THEN RdpResult(rd, "True", None, -1)
        ELSE IF Len(rd) < 2
        THEN RdpResult(rd, "False", None, -1)
        ELSE RdpResult(rd, IF fast \/ rc = 0 THEN "True" ELSE "False",
                       [rd EXCEPT ![1] = b0, ![2] = b1], rc)

\* set_rdp_level_1 (b0 = 0x33, b1 = 0xCC, fast = FALSE) and set_rdp_level_0
\* (b0 = 0xAA, b1 = 0x55): rd is what the option-byte read gives, rc the
\* return code of the st-flash write
SetRdp(b0, b1, fast, rd, rc) ==
    LET current_rdp == read_option_bytes(rd)
    IN  IF current_rdp = -1
        THEN RdpResult(rd, "False", None, -1)
        ELSE IF current_rdp = b0
        THEN RdpResult(rd, "True", None, -1)
        ELSE IF Len(rd) < 2    \* new_data[0] / new_data[1] raises IndexError
        THEN RdpResult(rd, "False", None, -1)
        ELSE RdpResult(rd, IF fast \/ rc = 0 THEN "True" ELSE "False",
                       [rd EXCEPT ![1] = b0, ![2] = b1], rc)

\* set_rdp_level_1 writing the complement in byte 0 and the level in byte 1
set_rdp_level_1_swapped(rd, rc) == SetRdp(204, 51, FALSE, rd, rc)

\* set_rdp_level_1 without the line that sets the complement byte
set_rdp_level_1_nocomp(rd, rc) ==
    LET r == SetRdp(51, 204, FALSE, rd, rc)
    IN  IF r.new_data = None THEN r
        ELSE [r EXCEPT !.new_data = [rd EXCEPT ![1] = 51]]

set_rdp_level_1(rd, rc) == SetRdp(51, 204, FALSE, rd, rc)

\* set_rdp_level_0 building the block from the two bytes alone
set_rdp_level_0_fresh(fast, rd, rc) ==
    LET r == SetRdp(170, 85, fast, rd, rc)
    IN  IF r.new_data = None THEN r
        ELSE [r EXCEPT !.new_data = <<170, 85>> \o Zeros(Len(rd) - 2)]

set_rdp_level_0(fast, rd, rc) == SetRdp(170, 85, fast, rd, rc)

\* the st-flash commands a set_rdp_level_* call issued
RdpOps(r) ==
    IF r.new_data = None THEN <<"read_option_bytes">>
    ELSE <<"read_option_bytes", "write_option_bytes">>

\* arm_chipshouter (the probe after the call): the try block is 1 temperature read,
\* 2 faults_current, 3 voltage, 4 pulse.width, 5 armed, 6 pulse.repeat,
\* 7 pulse.deadtime; failAt = 0 is no exception, failAt = k is statement k
\* raising
arm_chipshouter(c, voltage, a, failAt) ==
    LET n == IF failAt = 0 THEN 7 ELSE failAt - 1
    IN  [voltage  |-> IF n >= 3 THEN voltage ELSE c.voltage,
         width    |-> IF n >= 4 THEN a.width ELSE c.width,
         armed    |-> IF n >= 5 THEN 1 ELSE c.armed,
         repeat   |-> IF n >= 6 THEN a.repeat ELSE c.repeat,
         deadtime |-> IF n >= 7 THEN a.deadtime ELSE c.deadtime,
         pulse    |-> c.pulse]

----------------------------------------------------------------------------
(* Inputs *)

Tails == UNION {[1..n -> {0, 255}] : n \in 0..MaxTail}

\* what read_flash can return during a campaign
FlashReads ==
    {None, <<>>, test_data, [test_data EXCEPT ![16] = 0], data_expected,
     Zeros(16)}

\* snapshots handed to the classification on its own
ClassifyInputs ==
    {None} \cup {SubSeq(h, 1, n) \o t :
                    h \in {test_data, data_expected, Zeros(16),
                           [test_data EXCEPT ![16] = 0],
                           [Zeros(16) EXCEPT ![16] = 255]},
                    n \in 0..16, t \in Tails}

OptBlock(b0, b1) == <<b0, b1>> \o <<0, 0, 120, 0, 135, 255, 0, 0, 255, 255, 0, 0, 255, 255>>

\* what the option-byte read can give during a campaign
OptReads == {None, <<>>, OptBlock(170, 85), OptBlock(51, 204), OptBlock(204, 51)}

\* option bytes handed to a set_rdp_level_* call on its own: a failed read,
\* every value of byte 0 in a full block, and blocks cut short
RdpReads ==
    {None}
    \cup {[OptBlock(b0, b1) EXCEPT ![5] = x] :
             b0 \in 0..255, b1 \in {85, 204}, x \in {120, 0}}
    \cup {SubSeq(b, 1, n) :
             b \in {OptBlock(170, 85), OptBlock(51, 204), OptBlock(204, 51),
                    OptBlock(0, 255)},
             n \in 0..15}

\* samples of random.randint(10, 200), randint(1, 20), randint(1, 10)
Widths == {10, 200}

Repeats == {20}

Deadtimes == {10}

\* run_demo, line 407: voltage=400
Voltages == {400}

ArgSets ==
    [voltage : Voltages, width : Widths, repeat : Repeats,
     deadtime : Deadtimes]

\* arguments of a run_whole_glitch call from any caller: zero and negative
\* values next to the ones run_demo draws
ArmArgSets ==
    [voltage : {-1, 0, 400}, width : {-1, 0, 10}, repeat : {0, 20},
     deadtime : {0, 10}]

NoArgs == [voltage |-> 0, width |-> 0, repeat |-> 0, deadtime |-> 0]

----------------------------------------------------------------------------
(* The campaign *)

Init ==
    /\ pc = "loop"
    /\ i = 0
    /\ args = NoArgs
    /\ cs = [voltage |-> 0, width |-> 0, armed |-> 0, repeat |-> 0,
             deadtime |-> 0, pulse |-> 0]
    /\ arm_ret = "none"
    /\ threads = {}
    /\ data_after = None
    /\ rdp = NoRdp
    /\ trace = <<>>
    /\ msg = ""
    /\ ret = "none"

\* run_demo, line 403-407: next iteration calls run_whole_glitch, or the
\* loop ends
Loop ==
    /\ pc = "loop"
    /\ IF i < Iterations
       THEN /\ \E a \in ArgSets : args' = a
            /\ pc' = "arm"
       ELSE /\ args' = args
            /\ pc' = "done"
    /\ UNCHANGED <<i, cs, arm_ret, threads, data_after, rdp, trace, msg, ret>>

\* line 341: arm_chipshouter, its result dropped
Arm ==
    /\ pc = "arm"
    /\ \E failAt \in 0..7 :
          /\ cs' = arm_chipshouter(cs, args.voltage, args, failAt)
          /\ arm_ret' = IF failAt = 0 THEN "True" ELSE "False"
    /\ trace' = Append(trace, "arm")
    /\ pc' = "check_tools"
    /\ UNCHANGED <<i, args, threads, data_after, rdp, msg, ret>>

\* lines 343-344
CheckTools ==
    /\ pc = "check_tools"
    /\ trace' = Append(trace, "which")
    /\ \E ok \in BOOLEAN :
          IF ok THEN pc' = "get_device_info" /\ UNCHANGED <<msg, ret>>
          ELSE pc' = "returned" /\ msg' = "ERROR: Missing required tools:"
               /\ ret' = "False"
    /\ UNCHANGED <<i, args, cs, arm_ret, threads, data_after, rdp>>

\* line 345
GetDeviceInfo ==
    /\ pc = "get_device_info"
    /\ trace' = Append(trace, "st-info")
    /\ pc' = "set_rdp_level_0"
    /\ UNCHANGED <<i, args, cs, arm_ret, threads, data_after, rdp, msg, ret>>

\* line 347
SetRdp0(reads) ==
    /\ pc = "set_rdp_level_0"
    /\ \E rd \in reads, rc \in {0, 1} :
          /\ rdp' = set_rdp_level_0(FALSE, rd, rc)
          /\ trace' = trace \o RdpOps(rdp')
    /\ pc' = "write_flash"
    /\ UNCHANGED <<i, args, cs, arm_ret, threads, data_after, msg, ret>>

\* line 349
WriteFlash ==
    /\ pc = "write_flash"
    /\ trace' = Append(trace, "write_flash")
    /\ rdp' = NoRdp
    /\ pc' = "reset_device"
    /\ UNCHANGED <<i, args, cs, arm_ret, threads, data_after, msg, ret>>

\* line 350
ResetDevice ==
    /\ pc = "reset_device"
    /\ trace' = Append(trace, "reset")
    /\ pc' = "read_flash"
    /\ UNCHANGED <<i, args, cs, arm_ret, threads, data_after, rdp, msg, ret>>

\* line 353
ReadBaseline ==
    /\ pc = "read_flash"
    /\ \E d \in FlashReads : data_after' = d
    /\ trace' = Append(trace, "read_flash")
    /\ pc' = "check_data_write"
    /\ UNCHANGED <<i, args, cs, arm_ret, threads, rdp, msg, ret>>

\* lines 354-357
CheckBaseline ==
    /\ pc = "check_data_write"
    /\ IF data_after = None
       THEN pc' = "crashed" /\ msg' = "TypeError" /\ UNCHANGED ret
       ELSE IF ~check_data_write(data_after)
       THEN pc' = "returned" /\ msg' = "Failed to write data to flash!"
            /\ ret' = "False"
       ELSE pc' = "set_rdp_level_1" /\ UNCHANGED <<msg, ret>>
    /\ UNCHANGED <<i, args, cs, arm_ret, threads, data_after, rdp, trace>>

\* line 360
SetRdp1(reads) ==
    /\ pc = "set_rdp_level_1"
    /\ \E rd \in reads, rc \in {0, 1} :
          /\ rdp' = set_rdp_level_1(rd, rc)
          /\ trace' = trace \o RdpOps(rdp')
    /\ pc' = "reset_device_2"
    /\ UNCHANGED <<i, args, cs, arm_ret, threads, data_after, msg, ret>>

\* line 361
ResetDevice2 ==
    /\ pc = "reset_device_2"
    /\ trace' = Append(trace, "reset")
    /\ rdp' = NoRdp
    /\ pc' = "read_flash_2"
    /\ UNCHANGED <<i, args, cs, arm_ret, threads, data_after, msg, ret>>

\* line 365
ReadProtected ==
    /\ pc = "read_flash_2"
    /\ \E d \in FlashReads : data_after' = d
    /\ trace' = Append(trace, "read_flash")
    /\ pc' = "check_data_protected"
    /\ UNCHANGED <<i, args, cs, arm_ret, threads, rdp, msg, ret>>

\* lines 366-369
CheckProtected ==
    /\ pc = "check_data_protected"
    /\ IF data_after = None
       THEN pc' = "crashed" /\ msg' = "TypeError" /\ UNCHANGED ret
       ELSE IF ~check_data_protected(data_after)
       THEN pc' = "returned" /\ msg' = "Failed to read data to flash!"
            /\ ret' = "False"
       ELSE pc' = "thread_start" /\ UNCHANGED <<msg, ret>>
    /\ UNCHANGED <<i, args, cs, arm_ret, threads, data_after, rdp, trace>>

\* lines 377-379 with a reset_device() between the start of the thread and
\* the call of set_rdp_level_0
ThreadStart_reset ==
    /\ pc = "thread_start"
    /\ Cardinality(threads) < MaxLive
    /\ threads' = threads \cup {[att |-> i, pc |-> "pulse"]}
    /\ trace' = trace \o <<"thread_start", "reset">>
    /\ pc' = "set_rdp_level_0_fast"
    /\ UNCHANGED <<i, args, cs, arm_ret, data_after, rdp, msg, ret>>

\* lines 377-378: glitch_thread.start()
ThreadStart ==
    /\ pc = "thread_start"
    /\ Cardinality(threads) < MaxLive
    /\ threads' = threads \cup {[att |-> i, pc |-> "pulse"]}
    /\ trace' = Append(trace, "thread_start")
    /\ pc' = "set_rdp_level_0_fast"
    /\ UNCHANGED <<i, args, cs, arm_ret, data_after, rdp, msg, ret>>

\* line 379: set_rdp_level_0(fast=True), its result dropped
SetRdp0Fast(reads) ==
    /\ pc = "set_rdp_level_0_fast"
    /\ \E rd \in reads, rc \in {0, 1} :
          /\ rdp' = set_rdp_level_0(TRUE, rd, rc)
          /\ trace' = trace \o RdpOps(rdp')
    /\ pc' = "read_flash_3"
    /\ UNCHANGED <<i, args, cs, arm_ret, threads, data_after, msg, ret>>

\* line 383
ReadAfterRace ==
    /\ pc = "read_flash_3"
    /\ \E d \in FlashReads : data_after' = d
    /\ trace' = Append(trace, "read_flash")
    /\ rdp' = NoRdp
    /\ pc' = "classify"
    /\ UNCHANGED <<i, args, cs, arm_ret, threads, msg, ret>>

\* lines 384-396
Classify ==
    /\ pc = "classify"
    /\ msg' = Classification(data_after)
    /\ IF msg' = "TypeError" THEN pc' = "crashed" /\ UNCHANGED ret
       ELSE /\ pc' = "returned"
            /\ ret' = IF msg' = "GLITCH WORKED!" THEN "True" ELSE "False"
    /\ UNCHANGED <<i, args, cs, arm_ret, threads, data_after, rdp, trace>>

\* run_demo, line 407-408: run_whole_glitch has returned, its locals are gone
Returned ==
    /\ pc = "returned"
    /\ i' = i + 1
    /\ pc' = "loop"
    /\ args' = NoArgs
    /\ arm_ret' = "none"
    /\ data_after' = None
    /\ rdp' = NoRdp
    /\ trace' = <<>>
    /\ msg' = ""
    /\ ret' = "none"
    /\ UNCHANGED <<cs, threads>>

\* glitch_on, line 60: cs.pulse = pulse; an exception ends the thread
GlitchPulse(t) ==
    /\ t.pc = "pulse"
    /\ \E ok \in BOOLEAN :
          IF ok
          THEN /\ cs' = [cs EXCEPT !.pulse = 1]
               /\ threads' = (threads \ {t}) \cup {[t EXCEPT !.pc = "disarm"]}
          ELSE /\ cs' = cs
               /\ threads' = threads \ {t}
    /\ UNCHANGED <<pc, i, args, arm_ret, data_after, rdp, trace, msg, ret>>

\* glitch_on, lines 61-63: cs.armed = 0, then the thread ends
GlitchDisarm(t) ==
    /\ t.pc = "disarm"
    /\ \E ok \in BOOLEAN :
          cs' = IF ok THEN [cs EXCEPT !.armed = 0] ELSE cs
    /\ threads' = threads \ {t}
    /\ UNCHANGED <<pc, i, args, arm_ret, data_after, rdp, trace, msg, ret>>

Next ==
    \/ Loop
    \/ Arm
    \/ CheckTools
    \/ GetDeviceInfo
    \/ SetRdp0(OptReads)
    \/ WriteFlash
    \/ ResetDevice
    \/ ReadBaseline
    \/ CheckBaseline
    \/ SetRdp1(OptReads)
    \/ ResetDevice2
    \/ ReadProtected
    \/ CheckProtected
    \/ ThreadStart
    \/ SetRdp0Fast(OptReads)
    \/ ReadAfterRace
    \/ Classify
    \/ Returned
    \/ \E t \in threads : GlitchPulse(t)
    \/ \E t \in threads : GlitchDisarm(t)

Spec == Init /\ [][Next]_vars

\* the steps of the main thread: every external command and probe access of
\* run_demo and run_whole_glitch returns or raises
Main ==
    \/ Loop
    \/ Arm
    \/ CheckTools
    \/ GetDeviceInfo
    \/ SetRdp0(OptReads)
    \/ WriteFlash
    \/ ResetDevice
    \/ ReadBaseline
    \/ CheckBaseline
    \/ SetRdp1(OptReads)
    \/ ResetDevice2
    \/ ReadProtected
    \/ CheckProtected
    \/ ThreadStart
    \/ SetRdp0Fast(OptReads)
    \/ ReadAfterRace
    \/ Classify
    \/ Returned

\* the steps of the glitch_on threads: the sleeps of lines 61 and 63 end
Trigger ==
    \/ \E t \in threads : GlitchPulse(t)
    \/ \E t \in threads : GlitchDisarm(t)

\* the campaign with both kinds of thread scheduled fairly
FairSpec == Spec /\ WF_vars(Main) /\ WF_vars(Trigger)

\* The classification on its own: lines 384-396 applied to one snapshot
InitClassify ==
    /\ pc = "classify"
    /\ i = 0
    /\ args = NoArgs
    /\ cs = [voltage |-> 0, width |-> 0, armed |-> 0, repeat |-> 0,
             deadtime |-> 0, pulse |-> 0]
    /\ arm_ret = "none"
    /\ threads = {}
    /\ data_after \in ClassifyInputs
    /\ rdp = NoRdp
    /\ trace = <<>>
    /\ msg = ""
    /\ ret = "none"

NextClassify == Classify

SpecClassify == InitClassify /\ [][NextClassify]_vars

\* A set_rdp_level_* call on its own: lines 168-299 applied to one read of
\* the option bytes
InitRdp ==
    /\ pc \in {"set_rdp_level_0", "set_rdp_level_1", "set_rdp_level_0_fast"}
    /\ i = 0
    /\ args = NoArgs
    /\ cs = [voltage |-> 0, width |-> 0, armed |-> 0, repeat |-> 0,
             deadtime |-> 0, pulse |-> 0]
    /\ arm_ret = "none"
    /\ threads = {}
    /\ data_after = None
    /\ rdp = NoRdp
    /\ trace = <<>>
    /\ msg = ""
    /\ ret = "none"

NextRdp ==
    \/ SetRdp0(RdpReads)
    \/ SetRdp1(RdpReads)
    \/ SetRdp0Fast(RdpReads)

SpecRdp == InitRdp /\ [][NextRdp]_vars

\* The arming on its own: line 341 for one set of arguments
InitArm ==
    /\ pc = "arm"
    /\ i = 0
    /\ args \in ArmArgSets
    /\ cs = [voltage |-> 0, width |-> 0, armed |-> 0, repeat |-> 0,
             deadtime |-> 0, pulse |-> 0]
    /\ arm_ret = "none"
    /\ threads = {}
    /\ data_after = None
    /\ rdp = NoRdp
    /\ trace = <<>>
    /\ msg = ""
    /\ ret = "none"

NextArm == Arm

SpecArm == InitArm /\ [][NextArm]_vars

----------------------------------------------------------------------------
(* Properties *)

\* the probe commands of the current attempt, as a set
Issued == {trace[k] : k \in 1..Len(trace)}

\* C1: when an attempt whose arming succeeded returns to the campaign loop,
\* the probe is disarmed
C1_DisarmedAtReturn ==
    (pc = "returned" /\ arm_ret = "True") => cs.armed = 0

\* C2: whenever the controller is at an ordinary memory operation (baseline
\* write, baseline read-back, protection verification read, post-race
\* read), the probe is not armed
C2_DisarmedAtMemoryOps ==
    pc \in {"write_flash", "read_flash", "read_flash_2", "read_flash_3"}
        => cs.armed = 0

\* C3: the post-race classification read starts only after the trigger
\* thread of this attempt has finished (the foreground command has, by pc)
C3_RaceJoined ==
    pc = "read_flash_3" => ~ \E t \in threads : t.att = i

\* C4: a trigger thread takes no step (pulse, disarm) once a later attempt
\* than the one that started it is running
C4_OneAttemptAtATime ==
    [][\A t \in threads :
          t \notin threads' => (t.att = i \/ pc \in {"loop", "done"})]_vars

C6_BaselineGate ==
    /\ [](pc \in {"set_rdp_level_1", "reset_device_2", "read_flash_2"} =>
            (data_after # None /\ Slice16(data_after) = test_data))
    /\ [](msg = "Failed to write data to flash!" =>
            /\ pc = "returned"
            /\ "thread_start" \notin Issued
            /\ Cardinality({k \in 1..Len(trace) : trace[k] = "reset"}) = 1
            /\ trace[Len(trace)] = "read_flash")
    /\ [][(pc = "check_data_write" /\ pc' # pc) =>
            IF data_after # None /\ Slice16(data_after) = test_data
            THEN pc' = "set_rdp_level_1"
            ELSE pc' \in {"returned", "crashed"}]_vars

C6_Witness ==
    /\ pc = "returned"
    /\ msg = "Failed to write data to flash!"
    /\ data_after = [test_data EXCEPT ![16] = 0]

\* C7: after a failed arm_chipshouter the attempt does no baseline write, no
\* protection step and no race
C7_ArmFailureAborts ==
    arm_ret = "False" =>
        Issued \cap {"write_flash", "write_option_bytes", "read_flash",
                     "thread_start"} = {}

\* C8: no failed debug-probe command ends the campaign: the main thread
\* never leaves the loop by an unhandled exception
C8_CampaignSurvives ==
    pc # "crashed"

\* C9: a failed foreground option-byte write in the race is reported: the
\* foreground result is a failure
C9_ForegroundFailureReported ==
    (pc = "read_flash_3" /\ rdp.rc > 0) => rdp.ret = "False"

\* C10: a snapshot whose first 16 bytes are the baseline pattern is
\* classified as success (GLITCH WORKED!, return True), whatever follows
C10_PatternSucceeds ==
    [][(pc = "classify" /\ pc' # pc /\ data_after # None
          /\ Slice16(data_after) = test_data)
       => (pc' = "returned" /\ msg' = "GLITCH WORKED!" /\ ret' = "True")]_vars

C10_Witness ==
    /\ pc = "returned"
    /\ msg = "GLITCH WORKED!"
    /\ Len(data_after) > 16

\* C11: a snapshot that is not the pattern and whose first 16 bytes are the
\* protected signature is classified as protection held (GLITCH FAILED!)
C11_SignatureHeld ==
    [][(pc = "classify" /\ pc' # pc /\ data_after # None
          /\ Slice16(data_after) # test_data
          /\ Slice16(data_after) = data_expected)
       => (pc' = "returned" /\ msg' = "GLITCH FAILED!")]_vars

\* C12: an all-zero snapshot is classified as protection held (GLITCH
\* FAILED!); a snapshot that is neither the pattern, nor the signature, nor
\* all zero is classified as destroyed data (GLITCH PROGRESS!)
C12_ZeroAndOther ==
    [][(pc = "classify" /\ pc' # pc /\ data_after # None) =>
          /\ (\A k \in 1..Len(data_after) : data_after[k] = 0)
                => (pc' = "returned" /\ msg' = "GLITCH FAILED!"
                    /\ ret' = "False")
          /\ ((\E k \in 1..Len(data_after) : data_after[k] # 0)
                /\ Slice16(data_after) # test_data
                /\ Slice16(data_after) # data_expected)
                => (pc' = "returned" /\ msg' = "GLITCH PROGRESS!"
                    /\ ret' = "False")]_vars

C12_Witness ==
    /\ pc = "returned"
    /\ msg = "GLITCH PROGRESS!"
    /\ Len(data_after) > 16
    /\ Slice16(data_after) = Zeros(16)

\* C13: the classification of any snapshot, a missing one included, ends
\* with one of the three outcomes and no exception
C13_ClassifyTotal ==
    [][(pc = "classify" /\ pc' # pc) =>
          /\ pc' = "returned"
          /\ msg' \in {"GLITCH WORKED!", "GLITCH PROGRESS!", "GLITCH FAILED!"}
          /\ ret' \in {"True", "False"}]_vars

\* the set_rdp_level_* call that has just returned, and the option bytes it
\* read
AfterRdp1 == pc = "reset_device_2" /\ rdp.ret # "none"

AfterRdp0 == pc \in {"write_flash", "read_flash_3"} /\ rdp.ret # "none"

HasRead == rdp.current_data # None

\* C14: when byte 0 of the option bytes read is already the target level
\* (0x33 for set_rdp_level_1, 0xAA for set_rdp_level_0, fast or not), the
\* call issues no write to the option-byte address and returns True
C14_Idempotent ==
    ((AfterRdp1 /\ HasRead /\ Len(rdp.current_data) >= 1
         /\ rdp.current_data[1] = 51)
      \/ (AfterRdp0 /\ HasRead /\ Len(rdp.current_data) >= 1
         /\ rdp.current_data[1] = 170))
    => /\ rdp.ret = "True"
       /\ rdp.new_data = None
       /\ rdp.rc = -1
       /\ trace[Len(trace)] = "read_option_bytes"

C14_Witness ==
    /\ AfterRdp1
    /\ rdp.current_data = OptBlock(51, 204)
    /\ rdp.ret = "True"

\* C15: for option bytes read with byte 0 other than 0x33, set_rdp_level_1
\* writes a block of the same length that starts 0x33, 0xCC and equals the
\* block read at every index >= 2
C15_Level1Block ==
    (AfterRdp1 /\ HasRead /\ Len(rdp.current_data) >= 2
        /\ rdp.current_data[1] # 51)
    => /\ rdp.new_data # None
       /\ trace[Len(trace)] = "write_option_bytes"
       /\ Len(rdp.new_data) = Len(rdp.current_data)
       /\ rdp.new_data[1] = 51
       /\ rdp.new_data[2] = 204
       /\ \A k \in 3..Len(rdp.current_data) :
             rdp.new_data[k] = rdp.current_data[k]

C15_Witness ==
    /\ AfterRdp1
    /\ rdp.current_data = [OptBlock(170, 85) EXCEPT ![5] = 0]
    /\ rdp.new_data = [OptBlock(51, 204) EXCEPT ![5] = 0]

\* C16: for option bytes read with byte 0 other than 0xAA, set_rdp_level_0,
\* fast or not, writes a block that starts 0xAA, 0x55 and equals the block
\* read at every index >= 2
C16_Level0Block ==
    (AfterRdp0 /\ HasRead /\ Len(rdp.current_data) >= 2
        /\ rdp.current_data[1] # 170)
    => /\ rdp.new_data # None
       /\ trace[Len(trace)] = "write_option_bytes"
       /\ Len(rdp.new_data) = Len(rdp.current_data)
       /\ rdp.new_data[1] = 170
       /\ rdp.new_data[2] = 85
       /\ \A k \in 3..Len(rdp.current_data) :
             rdp.new_data[k] = rdp.current_data[k]

C16_Witness ==
    /\ pc = "read_flash_3"
    /\ rdp.current_data = OptBlock(51, 204)
    /\ rdp.new_data = OptBlock(170, 85)

\* C17: read_option_bytes returns byte 0 of what was read, and the level it
\* makes of it is Level 0 for 0xAA, Level 1 for 0x33, Level 2 for 0xCC and
\* Unknown for every other value, never a failure
C17_LevelOfByte ==
    (rdp.ret # "none" /\ HasRead /\ Len(rdp.current_data) >= 1)
    => LET b == rdp.current_data[1]
       IN  /\ rdp.current_rdp = b
           /\ (b = 170 <=> rdp.level = "RDP Level 0 (No protection)")
           /\ (b = 51 <=> rdp.level = "RDP Level 1 (Read protection enabled)")
           /\ (b = 204 <=>
                 rdp.level = "RDP Level 2 (Chip protection - IRREVERSIBLE!)")
           /\ (b \notin {170, 51, 204} <=> rdp.level = "Unknown RDP level")

C17_Witness ==
    /\ rdp.ret # "none"
    /\ HasRead
    /\ Len(rdp.current_data) = 16
    /\ rdp.current_data[1] = 255
    /\ rdp.level = "Unknown RDP level"

\* C18: no block handed to the option-byte write starts with 0xCC (Level2),
\* whatever was read
C18_NeverLevel2 ==
    rdp.new_data # None => rdp.new_data[1] # 204

C18_Witness ==
    /\ rdp.new_data # None
    /\ HasRead
    /\ rdp.current_data[1] = 204
    /\ rdp.new_data[1] = 51

\* C19: a set_rdp_level_* call whose option-byte read failed or whose
\* option-byte write failed returns False, fast or not
C19_FailureReturned ==
    (rdp.ret # "none" /\ (~HasRead \/ rdp.rc > 0)) => rdp.ret = "False"

\* C20: option bytes shorter than 16 bytes give no level, no write and a
\* failure
C20_ShortBlockRejected ==
    (rdp.ret # "none" /\ HasRead /\ Len(rdp.current_data) < 16)
    => /\ rdp.current_rdp = -1
       /\ rdp.new_data = None
       /\ rdp.ret = "False"

\* C21: every attempt that has ended, by a return or by an error that aborted
\* it, has produced exactly one outcome (the value run_whole_glitch hands to
\* the campaign loop, the only per-attempt record the program makes)
C21_OneOutcomePerAttempt ==
    pc \in {"returned", "crashed"} => ret \in {"True", "False"}

\* a parameter set with a value that is zero or not positive
InvalidParameters(a) ==
    a.voltage <= 0 \/ a.width <= 0 \/ a.repeat <= 0 \/ a.deadtime <= 0

\* C22: after the arming step of an attempt with invalid parameters the
\* probe's armed flag is not set
C22_InvalidRejected ==
    (pc = "check_tools" /\ InvalidParameters(args)) => cs.armed = 0

\* the commands of the debug probe that block the controller
Blocking == {"read_flash", "read_option_bytes", "write_flash", "reset"}

\* C23 as stated: between the start of the trigger thread and the write to
\* the option-byte address the controller issues no other blocking
\* debug-probe operation
C23_BackToBack ==
    \A j, k \in 1..Len(trace) :
       (j < k /\ trace[j] = "thread_start" /\ trace[k] = "write_option_bytes")
          => ~ \E m \in (j + 1)..(k - 1) : trace[m] \in Blocking

\* C23: between the start of the trigger thread and the write to the
\* option-byte address the controller issues exactly one debug-probe
\* operation, the option-byte read set_rdp_level_0 begins with; no reset and
\* no flash read: when the call has returned, the commands issued since the
\* thread start are that read alone, or that read and the write
C23_OnlyLevelRead ==
    pc = "read_flash_3" =>
        LET n == Len(trace)
        IN  \/ /\ trace[n] = "write_option_bytes"
               /\ trace[n - 1] = "read_option_bytes"
               /\ trace[n - 2] = "thread_start"
            \/ /\ trace[n] = "read_option_bytes"
               /\ trace[n - 1] = "thread_start"

C23_Witness ==
    /\ pc = "read_flash_3"
    /\ Len(trace) >= 3
    /\ trace[Len(trace)] = "write_option_bytes"
    /\ trace[Len(trace) - 2] = "thread_start"

\* C24: every attempt that reaches the trigger race is eventually followed
\* by a state in which the probe is disarmed
C24_EventuallyDisarmed ==
    [](pc = "set_rdp_level_0_fast" => <>(cs.armed = 0))

\* thread t fires its pulse in this step (glitch_on, line 60)
Fires(t) == t.pc = "pulse" /\ [t EXCEPT !.pc = "disarm"] \in threads'

\* C25: whenever a trigger thread fires a pulse, the probe is armed, and
\* while the attempt that started the thread is still the running one
\* (t.att = i, its parameters are in args) the probe holds that attempt's
\* voltage, width, repeat and deadtime
C25_PulseWithOwnParameters ==
    [][\A t \in threads :
          Fires(t) => /\ cs.armed = 1
                      /\ t.att = i => /\ cs.voltage = args.voltage
                                       /\ cs.width = args.width
                                       /\ cs.repeat = args.repeat
                                       /\ cs.deadtime = args.deadtime]_vars

\* C26: a set_rdp_level_* call whose option-byte read failed has issued the
\* read and nothing after it (no write to the option-byte address) and
\* returns False, in fast mode as well
C26_FailedReadNoWrite ==
    (rdp.ret # "none" /\ ~HasRead)
        => /\ rdp.ret = "False"
           /\ rdp.new_data = None
           /\ trace[Len(trace)] = "read_option_bytes"
           /\ (Len(trace) > 1 =>
                  trace[Len(trace) - 1] \notin {"read_option_bytes",
                                                "write_option_bytes"})

C26_Witness ==
    pc = "read_flash_3" /\ rdp.ret = "False" /\ ~HasRead

\* C27: the campaign ends only by run_demo returning, after exactly 10
\* attempts
C27_TenAttemptsThenReturn ==
    pc \in {"done", "crashed"} => (pc = "done" /\ i = Iterations)

====
